---- MODULE Spec2Model ----
(***************************************************************************)
(* Model of MapComponent (src/src/components/home/index.tsx): a React      *)
(* component holding an OpenLayers map, a drawing-mode selector, a measure *)
(* button and a measurement text.  One action per event the component      *)
(* handles; an action includes the re-render and the effects the event     *)
(* triggers.                                                               *)
(***************************************************************************)
EXTENDS Integers, Sequences, FiniteSets, TLC

\* ------------------------------------------------------------------ bounds
\* Number of draw completions explored (caps the size of the vector source).
MaxFeatures == 3

\* ------------------------------------------------------------- value sets
\* type GeometryType = "Point" | "LineString" | "Polygon" | "None"
GeometryType == {"Point", "LineString", "Polygon", "None"}

SelectOptionsTwo == {"LineString", "Point"}

\* The <option> values of the <select>.
SelectOptions == {"LineString", "Point", "Polygon"}

\* useState<GeometryType>("LineString")
InitialDrawType == "LineString"

\* useState<Map>() : the state starts undefined.
NoMap == "undefined"
NewMap == "newMap"

\* useState<Feature | null>(null)
NoFeature == [id |-> 0, geometry |-> [kind |-> "null", extent |-> 0]]

\* The VectorSource kept by useState, and the one a later render's
\* initialiser expression constructs and useState throws away.
SOURCE == "source"
FRESH == "fresh"
SourceHandles == {SOURCE, FRESH}

\* Values getLength / getArea return for the geometries drawn (metres,
\* square metres).
Magnitudes == {750, 2500000}

\* Extents a geometry of the given kind can have: a point has none.
Extents(kind) == IF kind = "Point" THEN {0} ELSE Magnitudes

\* ---------------------------------------------------------- pure functions
Max(a, b) == IF a >= b THEN a ELSE b

RECURSIVE Pow1000(_)
Pow1000(k) == IF k = 0 THEN 1 ELSE 1000 * Pow1000(k - 1)

Units == <<"", "K", "M", "B", "T">>

RECURSIVE UnitIndex(_, _)
UnitIndex(n, k) ==
    IF n >= 1000 /\ k < Len(Units) - 1 THEN UnitIndex(n \div 1000, k + 1) ELSE k

\* millify(n): divide by 1000 until below 1000, keep one decimal, append the
\* unit.  The number is kept in tenths.
Millify(n) ==
    LET k == UnitIndex(n, 0)
        d == Pow1000(k)
    IN  <<(n * 10 + d \div 2) \div d, Units[k + 1]>>

\* ol/sphere getArea, getLength
getArea(geometry) == geometry.extent
getLength(geometry) == geometry.extent

\* useState("") : the empty measurement.
EmptyText == [label |-> "", number |-> <<0, "">>, unit |-> ""]

\* The body of handleMeasureClick after the guard: the output string.
Output(geometry) ==
    IF geometry.kind = "Polygon"
    THEN [label |-> "Area: ", number |-> Millify(getArea(geometry)),
          unit |-> " square meters"]
    ELSE IF geometry.kind = "LineString"
    THEN [label |-> "Length: ", number |-> Millify(getLength(geometry)),
          unit |-> " meters"]
    ELSE EmptyText

\* map.removeInteraction(d): removes that interaction from the collection.
RECURSIVE removeInteraction(_, _)
removeInteraction(ints, d) ==
    IF ints = <<>> THEN <<>>
    ELSE IF Head(ints) = d THEN Tail(ints)
    ELSE <<Head(ints)>> \o removeInteraction(Tail(ints), d)

\* No cleanup registered (the effect returned undefined).
NoCleanup == [type |-> "null", source |-> "null"]

\* new Draw({ source, type: drawType })
drawInteraction(dt) == [type |-> dt, source |-> SOURCE]

DrawEffectNoCleanup(ints, cleanup, mp, dt) ==
    LET attach == ~(mp = NoMap \/ dt = "None")
        after == IF attach THEN Append(ints, drawInteraction(dt)) ELSE ints
    IN  [steps |-> <<ints, after>>,
         cleanup |-> IF attach THEN drawInteraction(dt) ELSE NoCleanup]

DrawEffectNoNoneCheck(ints, cleanup, mp, dt) ==
    LET cleaned == IF cleanup = NoCleanup THEN ints
                   ELSE removeInteraction(ints, cleanup)
        attach == ~(mp = NoMap)
        after == IF attach THEN Append(cleaned, drawInteraction(dt)) ELSE cleaned
    IN  [steps |-> <<cleaned, after>>,
         cleanup |-> IF attach THEN drawInteraction(dt) ELSE NoCleanup]

\* The draw-interaction effect re-running: the previous run's cleanup, then
\* the effect body.  steps lists the map's interactions after each of the two.
DrawEffect(ints, cleanup, mp, dt) ==
    LET cleaned == IF cleanup = NoCleanup THEN ints
                   ELSE removeInteraction(ints, cleanup)
        attach == ~(mp = NoMap \/ dt = "None")
        after == IF attach THEN Append(cleaned, drawInteraction(dt)) ELSE cleaned
    IN  [steps |-> <<cleaned, after>>,
         cleanup |-> IF attach THEN drawInteraction(dt) ELSE NoCleanup]

\* ------------------------------------------------------------------ state
VARIABLES
    phase,          \* "initial", "mounting" (setMap pending), "mounted", "unmounted"
    map,            \* React state map
    target,         \* target of the Map object: "mapRef" or "undefined"
    mapCount,       \* Map objects constructed
    detachCount,    \* calls of setTarget(undefined)
    interactions,   \* Draw interactions attached to the Map object
    drawCleanup,    \* interaction the draw effect's registered cleanup removes
    peak,           \* history: most interactions attached at the same time so far
    drawType,       \* React state drawType
    lastFeature,    \* React state lastFeature
    measurement,    \* React state measurement
    store,          \* features held by each VectorSource
    lastEvent       \* history: the event handled last

vars == <<phase, map, target, mapCount, detachCount, interactions, drawCleanup,
          peak, drawType, lastFeature, measurement, store, lastEvent>>

Init ==
    /\ phase = "initial"
    /\ map = NoMap
    /\ target = "undefined"
    /\ mapCount = 0
    /\ detachCount = 0
    /\ interactions = <<>>
    /\ drawCleanup = NoCleanup
    /\ peak = 0
    /\ drawType = InitialDrawType
    /\ lastFeature = NoFeature
    /\ measurement = EmptyText
    /\ store = [h \in SourceHandles |-> <<>>]
    /\ lastEvent = "none"

\* ---------------------------------------------------------------- actions
\* First render and its effects: the map effect constructs the Map on the
\* container and calls setMap; the draw effect sees map undefined and returns.
Mount ==
    /\ phase = "initial"
    /\ phase' = "mounting"
    /\ mapCount' = mapCount + 1
    /\ target' = "mapRef"
    /\ LET r == DrawEffect(interactions, drawCleanup, map, drawType)
       IN  /\ interactions' = r.steps[2]
           /\ drawCleanup' = r.cleanup
           /\ peak' = Max(peak, Max(Len(r.steps[1]), Len(r.steps[2])))
    /\ lastEvent' = "mount"
    /\ UNCHANGED <<map, detachCount, drawType, lastFeature, measurement, store>>

\* The render the pending setMap(newMap) causes: map changed, so the draw
\* effect re-runs.
CommitMap ==
    /\ phase = "mounting"
    /\ phase' = "mounted"
    /\ map' = NewMap
    /\ LET r == DrawEffect(interactions, drawCleanup, NewMap, drawType)
       IN  /\ interactions' = r.steps[2]
           /\ drawCleanup' = r.cleanup
           /\ peak' = Max(peak, Max(Len(r.steps[1]), Len(r.steps[2])))
    /\ lastEvent' = "setMap"
    /\ UNCHANGED <<target, mapCount, detachCount, drawType, lastFeature,
                   measurement, store>>

SetDrawTypeClearing(m) ==
    /\ phase \in {"mounting", "mounted"}
    /\ drawType' = m
    /\ LET r == DrawEffect(interactions, drawCleanup, map, m)
       IN  /\ interactions' = r.steps[2]
           /\ drawCleanup' = r.cleanup
           /\ peak' = Max(peak, Max(Len(r.steps[1]), Len(r.steps[2])))
    /\ lastEvent' = "select"
    /\ store' = [h \in SourceHandles |-> <<>>]
    /\ UNCHANGED <<phase, map, target, mapCount, detachCount, lastFeature,
                   measurement>>

\* setDrawType(m) with m different from the current value: re-render; the map
\* effect (deps []) does not re-run, the draw effect (deps map, drawType,
\* source) does.
SetDrawType(m) ==
    /\ phase \in {"mounting", "mounted"}
    /\ drawType' = m
    /\ LET r == DrawEffect(interactions, drawCleanup, map, m)
       IN  /\ interactions' = r.steps[2]
           /\ drawCleanup' = r.cleanup
           /\ peak' = Max(peak, Max(Len(r.steps[1]), Len(r.steps[2])))
    /\ lastEvent' = "select"
    /\ UNCHANGED <<phase, map, target, mapCount, detachCount, lastFeature,
                   measurement, store>>

\* onChange of the <select>: the user picks another of its options.
SelectMode(m) ==
    /\ m \in SelectOptions
    /\ m # drawType
    /\ SetDrawType(m)

\* The state setter over the whole declared type (the select does not offer
\* "None").
SetDeclared(m) ==
    /\ m \in GeometryType
    /\ m # drawType
    /\ SetDrawType(m)

DrawEndClearing(i, extent) ==
    /\ target = "mapRef"
    /\ i \in 1..Len(interactions)
    /\ Len(store[interactions[i].source]) < MaxFeatures
    /\ extent \in Extents(interactions[i].type)
    /\ LET src == interactions[i].source
           feature == [id |-> Len(store[SOURCE]) + Len(store[FRESH]) + 1,
                       geometry |-> [kind |-> interactions[i].type,
                                     extent |-> extent]]
       IN  /\ lastFeature' = feature
           /\ store' = [store EXCEPT ![src] = Append(@, feature)]
    /\ measurement' = EmptyText
    /\ lastEvent' = "drawend"
    /\ UNCHANGED <<phase, map, target, mapCount, detachCount, interactions,
                   drawCleanup, peak, drawType>>

\* The user completes a drawing with attached interaction i: the interaction
\* fires drawend (setLastFeature(event.feature)) and adds the feature to its
\* source.
DrawEnd(i, extent) ==
    /\ target = "mapRef"
    /\ i \in 1..Len(interactions)
    /\ Len(store[interactions[i].source]) < MaxFeatures
    /\ extent \in Extents(interactions[i].type)
    /\ LET src == interactions[i].source
           feature == [id |-> Len(store[SOURCE]) + Len(store[FRESH]) + 1,
                       geometry |-> [kind |-> interactions[i].type,
                                     extent |-> extent]]
       IN  /\ lastFeature' = feature
           /\ store' = [store EXCEPT ![src] = Append(@, feature)]
    /\ lastEvent' = "drawend"
    /\ UNCHANGED <<phase, map, target, mapCount, detachCount, interactions,
                   drawCleanup, peak, drawType, measurement>>

MeasureRest ==
    UNCHANGED <<phase, map, target, mapCount, detachCount, interactions,
                drawCleanup, peak, drawType, store>>

MeasureByMode ==
    /\ phase \in {"mounting", "mounted"}
    /\ drawType # "Point"
    /\ lastEvent' = "measure"
    /\ IF lastFeature = NoFeature
       THEN measurement' = measurement
       ELSE measurement' =
                Output([kind |-> drawType, extent |-> lastFeature.geometry.extent])
    /\ UNCHANGED lastFeature
    /\ MeasureRest

MeasureConsuming ==
    /\ phase \in {"mounting", "mounted"}
    /\ drawType # "Point"
    /\ lastEvent' = "measure"
    /\ IF lastFeature = NoFeature
       THEN measurement' = measurement
       ELSE measurement' = Output(lastFeature.geometry)
    /\ lastFeature' = NoFeature
    /\ MeasureRest

MeasureUnguarded ==
    /\ phase \in {"mounting", "mounted"}
    /\ drawType # "Point"
    /\ lastEvent' = "measure"
    /\ measurement' = Output([kind |-> "LineString", extent |-> 0])
    /\ UNCHANGED lastFeature
    /\ MeasureRest

MeasureSkipUnsupported ==
    /\ phase \in {"mounting", "mounted"}
    /\ drawType # "Point"
    /\ lastEvent' = "measure"
    /\ IF lastFeature = NoFeature \/ lastFeature.geometry.kind = "Point"
       THEN measurement' = measurement
       ELSE measurement' = Output(lastFeature.geometry)
    /\ UNCHANGED lastFeature
    /\ MeasureRest

\* Click on the measure button (rendered unless drawType is "Point"):
\* handleMeasureClick.
Measure ==
    /\ phase \in {"mounting", "mounted"}
    /\ drawType # "Point"
    /\ lastEvent' = "measure"
    /\ IF lastFeature = NoFeature
       THEN measurement' = measurement
       ELSE measurement' = Output(lastFeature.geometry)
    /\ UNCHANGED lastFeature
    /\ MeasureRest

UnmountNoDetach ==
    /\ phase \in {"mounting", "mounted"}
    /\ phase' = "unmounted"
    /\ interactions' = IF drawCleanup = NoCleanup THEN interactions
                       ELSE removeInteraction(interactions, drawCleanup)
    /\ drawCleanup' = NoCleanup
    /\ lastEvent' = "unmount"
    /\ UNCHANGED <<map, target, mapCount, detachCount, peak, drawType,
                   lastFeature, measurement, store>>

\* Unmount: both effects' cleanups run: newMap.setTarget(undefined) and, when
\* registered, map.removeInteraction(drawInteraction).
Unmount ==
    /\ phase \in {"mounting", "mounted"}
    /\ phase' = "unmounted"
    /\ target' = "undefined"
    /\ detachCount' = detachCount + 1
    /\ interactions' = IF drawCleanup = NoCleanup THEN interactions
                       ELSE removeInteraction(interactions, drawCleanup)
    /\ drawCleanup' = NoCleanup
    /\ lastEvent' = "unmount"
    /\ UNCHANGED <<map, mapCount, peak, drawType, lastFeature, measurement,
                   store>>

Next ==
    \/ Mount
    \/ CommitMap
    \/ \E m \in GeometryType : SelectMode(m)
    \/ \E i \in 1..2, extent \in Magnitudes \cup {0} : DrawEnd(i, extent)
    \/ Measure
    \/ Unmount

Spec == Init /\ [][Next]_vars

\* The component with the state setter driven over the whole declared type.
NextDeclared ==
    \/ Mount
    \/ CommitMap
    \/ \E m \in GeometryType : SetDeclared(m)
    \/ \E i \in 1..2, extent \in Magnitudes \cup {0} : DrawEnd(i, extent)
    \/ Measure
    \/ Unmount

SpecDeclared == Init /\ [][NextDeclared]_vars

\* ----------------------------------------------------------------- helpers
Mounted == phase \in {"mounting", "mounted"}

Drawable == {"Point", "LineString", "Polygon"}

IsPrefix(s, t) == Len(s) <= Len(t) /\ SubSeq(t, 1, Len(s)) = s

Kinds(h) == {store[h][k].geometry.kind : k \in 1..Len(store[h])}

\* ------------------------------------------------------------------ claims
\* C1: at most one drawing interaction is attached at any time (also inside a
\* handler: the old one is removed before the new one is added), an attached
\* interaction is of the current drawing mode, and with the map in state and a
\* mode among Point, LineString, Polygon exactly one is attached.
C1_OneInteractionOfMode ==
    /\ Len(interactions) <= 1
    /\ peak <= 1
    /\ \A i \in 1..Len(interactions) : interactions[i].type = drawType
    /\ (phase = "mounted" /\ drawType \in Drawable)
          => (Len(interactions) = 1 /\ interactions[1].type = drawType)

C1_Witness ==
    /\ phase = "mounted"
    /\ lastEvent = "select"
    /\ drawType = "Polygon"
    /\ interactions = <<drawInteraction("Polygon")>>
    /\ peak = 1

\* C2: with drawing mode None, or with no map in state yet, no drawing
\* interaction is attached.
C2_NoneOrNoMapAttachesNothing ==
    (drawType = "None" \/ map = NoMap) => interactions = <<>>

C2_Witness ==
    /\ phase = "mounted"
    /\ lastEvent = "select"
    /\ drawType = "None"
    /\ Len(store[SOURCE]) > 0
    /\ interactions = <<>>

\* C3 as stated: a measure with a Point as last-drawn feature leaves the
\* measurement text as it was.
C3_Original ==
    [][(lastEvent' = "measure" /\ lastFeature.geometry.kind = "Point")
          => measurement' = measurement]_vars

\* C3 amended: after a measure with a Point as last-drawn feature the
\* measurement text is empty (no Length or Area text), whatever it was before.
C3_PointMeasureEmpties ==
    (lastEvent = "measure" /\ lastFeature.geometry.kind = "Point")
        => measurement = EmptyText

C3_Witness ==
    /\ lastEvent = "measure"
    /\ lastFeature.geometry.kind = "Point"
    /\ "LineString" \in Kinds(SOURCE)
    /\ measurement = EmptyText

\* C4: after a measure the text has the form given by the kind of the
\* last-drawn feature (Length for a LineString, Area for a Polygon), whatever
\* the drawing mode is.
C4_FormFollowsGeometry ==
    lastEvent = "measure" =>
        /\ lastFeature.geometry.kind = "LineString" =>
              /\ measurement.label = "Length: "
              /\ measurement.unit = " meters"
              /\ measurement.number = Millify(lastFeature.geometry.extent)
        /\ lastFeature.geometry.kind = "Polygon" =>
              /\ measurement.label = "Area: "
              /\ measurement.unit = " square meters"
              /\ measurement.number = Millify(lastFeature.geometry.extent)

C4_Witness ==
    /\ lastEvent = "measure"
    /\ lastFeature.geometry.kind = "LineString"
    /\ drawType = "Polygon"
    /\ measurement.label = "Length: "

\* C5: while no drawing has been completed the measurement text is empty, and
\* a measure then changes neither the text nor the drawing mode, the
\* last-drawn feature, the sources or the attached interactions.
C5_MeasureWithoutDrawingNoOp ==
    /\ [](lastFeature = NoFeature => measurement = EmptyText)
    /\ [][(lastFeature = NoFeature /\ lastEvent' = "measure")
            => UNCHANGED <<measurement, drawType, lastFeature, store,
                           interactions>>]_vars

C5_Witness ==
    /\ lastEvent = "measure"
    /\ lastFeature = NoFeature
    /\ drawType = "Polygon"
    /\ measurement = EmptyText
    /\ store[SOURCE] = <<>>

\* C6: one Map is constructed per mount; it stays attached to its container
\* until unmount and unmount detaches it exactly once.
C6_DetachExactlyOnce ==
    /\ mapCount <= 1
    /\ Mounted => (mapCount = 1 /\ detachCount = 0 /\ target = "mapRef")
    /\ phase = "unmounted" => (detachCount = 1 /\ target = "undefined")

C6_Witness ==
    /\ phase = "unmounted"
    /\ detachCount = 1
    /\ drawType # InitialDrawType
    /\ Len(store[SOURCE]) >= 2
    /\ measurement # EmptyText

\* C7: the last-drawn feature is none until the first draw-end and then the
\* feature of the most recent draw-end; only a draw-end changes it.
C7_LastFeatureIsLatestDraw ==
    /\ [](lastFeature = IF store[SOURCE] = <<>> THEN NoFeature
                        ELSE store[SOURCE][Len(store[SOURCE])])
    /\ [][lastFeature' # lastFeature => lastEvent' = "drawend"]_vars

C7_Witness ==
    /\ lastEvent = "measure"
    /\ Len(store[SOURCE]) >= 2
    /\ lastFeature = store[SOURCE][Len(store[SOURCE])]
    /\ measurement = Output(lastFeature.geometry)
    /\ measurement # EmptyText

\* C8: only a measure changes the measurement text; a draw-end or a mode
\* selection leaves it as it was.
C8_TextChangesOnlyOnMeasure ==
    [][measurement' # measurement => lastEvent' = "measure"]_vars

C8_Witness ==
    /\ lastEvent = "drawend"
    /\ measurement # EmptyText
    /\ measurement # Output(lastFeature.geometry)

C10_SourceOnlyGrows ==
    /\ [][\A h \in SourceHandles : IsPrefix(store[h], store'[h])]_vars
    /\ [](\A i \in 1..Len(interactions) : interactions[i].source = SOURCE)
    /\ [](store[FRESH] = <<>>)

C10_Witness ==
    /\ lastEvent = "select"
    /\ Len(store[SOURCE]) >= 2
    /\ Cardinality(Kinds(SOURCE)) >= 2
    /\ drawType \notin Kinds(SOURCE)
    /\ Len(interactions) = 1
    /\ interactions[1].source = SOURCE

====
